---------------------------- MODULE Spec2Model ----------------------------
(***************************************************************************)
(* Model of the ramp-soak scheduler of the Oven firmware                   *)
(* (libraries/TProgram, loaded by Oven/JSConf).                            *)
(*                                                                         *)
(* unsigned long is modelled as the integers modulo Modulus, double as a   *)
(* binary floating-point number with MantBits significant bits, rounded to *)
(* nearest (ties to even), with NaN and the two infinities; the exponent   *)
(* range is not bounded.                                                   *)
(***************************************************************************)
EXTENDS Integers, Sequences, FiniteSets, TLC

\* ------------------------------------------------------------------ bounds
\* unsigned long arithmetic is arithmetic modulo Modulus (2^32 on the target)
Modulus == 4
\* significant bits of a double (53 on the target); every unsigned long
\* converts exactly: Modulus <= 2^MantBits, as 2^32 <= 2^53
MantBits == 3
\* the model loads at most MaxSteps steps into the program of Spec
MaxSteps == 2
\* the model follows the true time since boot, in ms, from StartClock up to
\* MaxClock: millis() wraps to 0 in between
StartClock == 2
MaxClock == 6

\* a steps array of the configuration document holds at most MaxDocLen elements
MaxDocLen == 2
\* the temperatures of SpecStep are the integers 0 .. MaxTemp
MaxTemp == 8
\* the gains of a Reset of a controller are 0 and MaxGain
MaxGain == 1
\* the poll interval of a Reset is 0, 1 or MaxPoll ms
MaxPoll == 2
\* Evaluate is called at most MaxEvals times after a Reset
MaxEvals == 3
\* UpdateRunningPrograms is called at most MaxLoads times
MaxLoads == 2
\* a programs array holds at most MaxDocPrograms programs, a steps array of
\* it at most MaxDocSteps steps, a name at most MaxNameLen characters
MaxDocPrograms == 11
MaxDocSteps == 11
MaxNameLen == 33

\* ------------------------------------------------------- program constants
TPGM_STEPS_MAX == 10
TPGM_NAME_LEN == 32
DEFAULT_MAX_PROGRAMS == 10

UL(x) == x % Modulus

\* ------------------------------------------------------------------ double
RECURSIVE GCD(_, _)
GCD(a, b) == IF b = 0 THEN a ELSE GCD(b, a % b)

Abs(x) == IF x < 0 THEN -x ELSE x

RECURSIVE Pow2(_)
Pow2(k) == IF k = 0 THEN 1 ELSE 2 * Pow2(k - 1)

MantHi == Pow2(MantBits)
MantLo == Pow2(MantBits - 1)

NAN == [k |-> "nan", n |-> 0, d |-> 1]
Inf(s) == [k |-> "inf", n |-> s, d |-> 1]

\* the finite value n/d (d > 0) in lowest terms
Fin(n, d) ==
    LET g == GCD(Abs(n), d)
    IN  [k |-> "fin", n |-> n \div g, d |-> d \div g]

\* n/d with n >= 0, d > 0, rounded to MantBits significant bits and scaled
\* by up/dn: the mantissa is brought into [2^(MantBits-1), 2^MantBits)
RECURSIVE RoundPos(_, _, _, _)
RoundPos(n, d, up, dn) ==
    IF n = 0 THEN <<0, 1>>
    ELSE IF n >= d * MantHi THEN RoundPos(n, 2 * d, 2 * up, dn)
    ELSE IF n < d * MantLo THEN RoundPos(2 * n, d, up, 2 * dn)
    ELSE LET q == n \div d
             r == n % d
             m == IF 2 * r > d \/ (2 * r = d /\ q % 2 = 1) THEN q + 1 ELSE q
         IN  <<m * up, dn>>

\* the double nearest to n/d (d > 0)
Round(n, d) ==
    LET r == RoundPos(Abs(n), d, 1, 1)
    IN  Fin((IF n < 0 THEN -1 ELSE 1) * r[1], r[2])

\* conversion of an integer (an unsigned long, a literal) to double
ToDouble(i) == Round(i, 1)

Sign(x) == IF x < 0 THEN -1 ELSE 1

FAdd(a, b) ==
    IF a.k = "nan" \/ b.k = "nan" THEN NAN
    ELSE IF a.k = "inf" /\ b.k = "inf" THEN (IF a.n = b.n THEN a ELSE NAN)
    ELSE IF a.k = "inf" THEN a
    ELSE IF b.k = "inf" THEN b
    ELSE Round(a.n * b.d + b.n * a.d, a.d * b.d)

FNeg(a) == IF a.k = "nan" THEN NAN ELSE [a EXCEPT !.n = -a.n]

FSub(a, b) == FAdd(a, FNeg(b))

FMul(a, b) ==
    IF a.k = "nan" \/ b.k = "nan" THEN NAN
    ELSE IF a.k = "inf" \/ b.k = "inf"
         THEN (IF a.n = 0 \/ b.n = 0 THEN NAN ELSE Inf(Sign(a.n) * Sign(b.n)))
    ELSE Round(a.n * b.n, a.d * b.d)

FDiv(a, b) ==
    IF a.k = "nan" \/ b.k = "nan" THEN NAN
    ELSE IF a.k = "inf" THEN (IF b.k = "inf" THEN NAN ELSE Inf(Sign(a.n) * Sign(b.n)))
    ELSE IF b.k = "inf" THEN Fin(0, 1)
    ELSE IF b.n = 0 THEN (IF a.n = 0 THEN NAN ELSE Inf(Sign(a.n)))
    ELSE Round(Sign(b.n) * a.n * b.d, a.d * Abs(b.n))

\* isnan(), and the comparisons of two doubles (false when either is NaN)
IsNaN(a) == a.k = "nan"
FEq(a, b) == ~IsNaN(a) /\ ~IsNaN(b) /\ a = b
FLe(a, b) ==
    /\ ~IsNaN(a) /\ ~IsNaN(b)
    /\ \/ a = b
       \/ a.k = "inf" /\ a.n < 0
       \/ b.k = "inf" /\ b.n > 0
       \/ a.k = "fin" /\ b.k = "fin" /\ a.n * b.d <= b.n * a.d

\* ------------------------------------------------------------ TProgramStep
\* TProgramStep(): the default constructor
DefaultStep ==
    [T_start |-> NAN, T_end |-> NAN, slope |-> NAN, duration |-> 0, dueTime |-> 0]

\* mutant of StepInit: the slope taken from end to start
StepInitSlopeReversed(T_s, T_e, d, dt) ==
    [T_start |-> T_s, T_end |-> T_e, slope |-> FDiv(FSub(T_s, T_e), ToDouble(d)),
     duration |-> d, dueTime |-> dt]

\* TProgramStep::Init
StepInit(T_s, T_e, d, dt) ==
    [T_start |-> T_s, T_end |-> T_e, slope |-> FDiv(FSub(T_e, T_s), ToDouble(d)),
     duration |-> d, dueTime |-> dt]

\* TProgramStep::CalculateSetPoint
StepCalculateSetPoint(s, t) == FAdd(FMul(s.slope, ToDouble(t)), s.T_start)


\* ---------------------------------------------------------------- TProgram
\* the indexes of char _name[TPGM_NAME_LEN]
NameIdx == 0 .. TPGM_NAME_LEN - 1

\* _name after the constructor: only _name[0] is set; junk is what the other
\* bytes hold (0 in an object with static storage)
NewName(junk) == [i \in NameIdx |-> IF i = 0 THEN 0 ELSE junk]

\* a C string of n characters, none of them 0, without its terminator
CString(n) == [i \in 1 .. n |-> 1]

\* strncpy(dest, src, n): the first n bytes of dest are those of src, then 0
Strncpy(dest, src, n) ==
    [i \in DOMAIN dest |->
        IF i >= n THEN dest[i] ELSE IF i < Len(src) THEN src[i + 1] ELSE 0]

\* TProgram(): the constructor; steps holds the whole array _steps
NewProgram ==
    [name |-> NewName(0),
     timeElapsed |-> 0, timeElapsedStep |-> 0, timeLast |-> 0,
     totalDuration |-> 0, idx |-> 0, nSteps |-> 0,
     steps |-> [i \in 0 .. TPGM_STEPS_MAX - 1 |-> DefaultStep]]

\* TProgram::IsValid
IsValid(p) == p.nSteps > 0

\* mutant of AddStep: no check of the capacity
AddStepUnchecked(p, T_s, T_e, d) ==
    LET total == UL(p.totalDuration + d)
    IN  [p EXCEPT !.totalDuration = total,
                  !.steps[p.nSteps] = StepInit(T_s, T_e, d, total),
                  !.nSteps = p.nSteps + 1]

\* TProgram::AddStep: the program after the call
AddStep(p, T_s, T_e, d) ==
    IF p.nSteps < TPGM_STEPS_MAX
    THEN LET total == UL(p.totalDuration + d)
         IN  [p EXCEPT !.totalDuration = total,
                       !.steps[p.nSteps] = StepInit(T_s, T_e, d, total),
                       !.nSteps = p.nSteps + 1]
    ELSE p

\* TProgram::AddStep: the values the call may return. The branch that adds
\* the step ends without a return statement, so the caller reads an
\* indeterminate bool; the other branch returns false.
AddStepReturns(p) ==
    IF p.nSteps < TPGM_STEPS_MAX THEN BOOLEAN ELSE {FALSE}

\* mutant of StepForward: the elapsed time is not adjusted
StepForwardKeepElapsed(p) ==
    IF p.idx >= p.nSteps - 1 THEN p ELSE [p EXCEPT !.idx = p.idx + 1]

\* mutant of StepForward: the index advances whatever the step count
StepForwardUnchecked(p) ==
    LET i == p.idx + 1
    IN  [p EXCEPT !.idx = i,
                  !.timeElapsed = UL(p.steps[i].dueTime - p.steps[i].duration)]

\* TProgram::StepForward
StepForward(p) ==
    IF p.idx >= p.nSteps - 1 THEN p
    ELSE LET i == p.idx + 1
         IN  [p EXCEPT !.idx = i,
                       !.timeElapsed = UL(p.steps[i].dueTime - p.steps[i].duration)]

\* TProgram::StepBack
StepBack(p) ==
    IF p.idx = 0 THEN p
    ELSE LET i == p.idx - 1
         IN  [p EXCEPT !.idx = i,
                       !.timeElapsed = UL(p.steps[i].dueTime - p.steps[i].duration)]

\* mutant of Begin: the run starts over from step 0
BeginFromStart(p, timeNow) ==
    IF p.nSteps = 0 THEN p
    ELSE [p EXCEPT !.timeLast = timeNow, !.timeElapsedStep = 0,
                   !.idx = 0, !.timeElapsed = 0]

\* TProgram::Begin: the program after the call, millis() being timeNow
Begin(p, timeNow) ==
    IF p.nSteps = 0 THEN p
    ELSE [p EXCEPT !.timeLast = timeNow, !.timeElapsedStep = 0]

\* TProgram::Begin: the value returned
BeginReturn(p) ==
    IF p.nSteps = 0 THEN NAN
    ELSE StepCalculateSetPoint(p.steps[p.idx], 0)

\* mutant of TimeDelta: a difference that does not wrap
TimeDeltaSaturating(timeNow, timeLast) ==
    IF timeNow >= timeLast THEN timeNow - timeLast ELSE 0

\* the unsigned difference timeNow - _timeLast of TProgram::CalculateSetPoint
TimeDelta(timeNow, timeLast) == UL(timeNow - timeLast)

\* the while loop of TProgram::CalculateSetPoint, entered with _idx = i:
\* <<the index it ends with, whether it left by its condition (TRUE) or by
\* the return inside it (FALSE)>>
RECURSIVE SeekStep(_, _, _)
SeekStep(p, elapsed, i) ==
    IF elapsed > p.steps[i].dueTime
    THEN IF i + 1 >= p.nSteps THEN <<i + 1, FALSE>>
         ELSE SeekStep(p, elapsed, i + 1)
    ELSE <<i, TRUE>>

\* TProgram::CalculateSetPoint: <<the program after the call, the value
\* returned>>, millis() being timeNow
CalculateSetPoint(p, timeNow) ==
    LET elapsed == UL(p.timeElapsed + TimeDelta(timeNow, p.timeLast))
        p1 == [p EXCEPT !.timeElapsed = elapsed]
    IN  IF elapsed > p.totalDuration THEN <<p1, NAN>>
        ELSE LET at == SeekStep(p, elapsed, p.idx)
                 p2 == [p1 EXCEPT !.timeLast = timeNow, !.idx = at[1]]
             IN  IF ~at[2] THEN <<p2, NAN>>
                 ELSE LET s == p.steps[at[1]]
                          t == UL(s.duration - s.dueTime + elapsed)
                      IN  <<[p2 EXCEPT !.timeElapsedStep = t],
                            StepCalculateSetPoint(s, t)>>

\* mutant of Reset: the step index is kept
ResetKeepIdx(p) ==
    [p EXCEPT !.timeElapsed = 0, !.timeElapsedStep = 0, !.timeLast = 0]

\* TProgram::Reset
Reset(p) ==
    [p EXCEPT !.timeElapsed = 0, !.timeElapsedStep = 0, !.timeLast = 0, !.idx = 0]

\* TProgram::Clear
Clear(p) ==
    [p EXCEPT !.name[0] = 0,
              !.timeElapsed = 0, !.timeElapsedStep = 0, !.timeLast = 0,
              !.totalDuration = 0, !.idx = 0, !.nSteps = 0]

\* the indexes of _name that TProgram::SetName stores to: strncpy fills the
\* first TPGM_NAME_LEN - 1 bytes, the terminator goes to _name[TPGM_NAME_LEN]
SetNameWrites == (0 .. TPGM_NAME_LEN - 2) \cup {TPGM_NAME_LEN}

\* TProgram::SetName: the programs the call can leave. The store to
\* _name[TPGM_NAME_LEN] is past the end of _name: it clears the first byte
\* of _timeElapsed, the member that follows _name, or has no effect
SetName(p, name) ==
    LET q == [p EXCEPT !.name = Strncpy(p.name, name, TPGM_NAME_LEN - 1)]
    IN  { q, [q EXCEPT !.timeElapsed = UL(q.timeElapsed - (q.timeElapsed % 256))] }

\* TProgram::GetName: the characters of _name before the first 0 (all of
\* _name when it holds no 0)
GetName(p) ==
    LET n == IF \E i \in NameIdx : p.name[i] = 0
             THEN CHOOSE i \in NameIdx :
                      p.name[i] = 0 /\ \A j \in 0 .. i - 1 : p.name[j] # 0
             ELSE TPGM_NAME_LEN
    IN  [i \in 1 .. n |-> p.name[i - 1]]

\* TProgram::GetStepsTotal
GetStepsTotal(p) == p.nSteps


\* ------------------------------------------------------------------ JSConf
\* sobj[key] | default: the member, or the default when it is missing
JsonOr(sobj, key, default) ==
    IF key \in DOMAIN sobj.f THEN sobj.f[key] ELSE default

\* the loop over the steps array of JSConf::UpdateRunningPrograms, from
\* element j on; an element that is no JSON object is skipped
RECURSIVE AddSteps(_, _, _, _)
AddSteps(p, sarr, j, nSteps) ==
    IF j > nSteps THEN p
    ELSE AddSteps(IF sarr[j].obj
                  THEN AddStep(p, JsonOr(sarr[j], "tStart", ToDouble(0)),
                                  JsonOr(sarr[j], "tEnd", ToDouble(0)),
                                  UL(JsonOr(sarr[j], "duration", 0)))
                  ELSE p,
                  sarr, j + 1, nSteps)

\* JSConf::UpdateRunningPrograms, for one program object whose steps array
\* is sarr: the program Programs[i] after it
LoadSteps(p, sarr) ==
    LET nSteps == IF Len(sarr) > TPGM_STEPS_MAX THEN TPGM_STEPS_MAX ELSE Len(sarr)
    IN  Reset(AddSteps(p, sarr, 1, nSteps))

\* JSConf(): the configuration after its construction
\* op: the call made last, loads: the calls of UpdateRunningPrograms made,
\* doc: the array the last of them was given, built: the array the last
\* BuildRunningPrograms wrote
NewConf ==
    [nPrograms |-> 0,
     Programs |-> [i \in 0 .. DEFAULT_MAX_PROGRAMS - 1 |-> NewProgram],
     op |-> "new", loads |-> 0, doc |-> <<>>, built |-> <<>>]

\* the body of the loop over the programs array for the element pobj: the
\* programs Programs[i] can be after it. An element that is no JSON object
\* or has no steps array leaves Programs[i] as it was
LoadProgram(p, pobj) ==
    IF pobj.obj /\ "steps" \in DOMAIN pobj.f
    THEN { LoadSteps(q, pobj.f["steps"]) : q \in SetName(p, JsonOr(pobj, "name", <<>>)) }
    ELSE {p}

\* the loop over the programs array, from Programs[i] on: the arrays
\* Programs can be after it
RECURSIVE LoadPrograms(_, _, _, _)
LoadPrograms(P, jaPrograms, i, nPrograms) ==
    IF i >= nPrograms THEN {P}
    ELSE UNION { LoadPrograms([P EXCEPT ![i] = q], jaPrograms, i + 1, nPrograms) :
                    q \in LoadProgram(P[i], jaPrograms[i + 1]) }

\* mutant of UpdateRunningPrograms: the count stored is the size of the
\* array
UpdateRunningProgramsCountAll(c, jaPrograms) ==
    LET nPrograms == IF Len(jaPrograms) > DEFAULT_MAX_PROGRAMS
                     THEN DEFAULT_MAX_PROGRAMS ELSE Len(jaPrograms)
    IN  { [c EXCEPT !.nPrograms = Len(jaPrograms), !.Programs = P] :
             P \in LoadPrograms(c.Programs, jaPrograms, 0, nPrograms) }

\* JSConf::UpdateRunningPrograms: the configurations it can leave
UpdateRunningPrograms(c, jaPrograms) ==
    LET nPrograms == IF Len(jaPrograms) > DEFAULT_MAX_PROGRAMS
                     THEN DEFAULT_MAX_PROGRAMS ELSE Len(jaPrograms)
    IN  { [c EXCEPT !.nPrograms = nPrograms, !.Programs = P] :
             P \in LoadPrograms(c.Programs, jaPrograms, 0, nPrograms) }

\* the steps array BuildRunningPrograms writes for a program
BuildSteps(p) ==
    [j \in 1 .. GetStepsTotal(p) |->
        [obj |-> TRUE,
         f |-> [k \in {"tStart", "tEnd", "duration"} |->
                  IF k = "tStart" THEN p.steps[j - 1].T_start
                  ELSE IF k = "tEnd" THEN p.steps[j - 1].T_end
                  ELSE p.steps[j - 1].duration]]]

\* JSConf::BuildRunningPrograms: the programs array it writes
BuildRunningPrograms(c) ==
    [i \in 1 .. c.nPrograms |->
        [obj |-> TRUE,
         f |-> [k \in {"name", "steps"} |->
                  IF k = "name" THEN GetName(c.Programs[i - 1])
                  ELSE BuildSteps(c.Programs[i - 1])]]]

\* ----------------------------------------------------------------- TSensor
\* an int32_t / uint32_t as its 32 bits, bit 0 the least significant
BitIdx == 0 .. 31

\* the bits of the literal n, 0 <= n < 2^31
Bits(n) == [i \in BitIdx |-> IF i = 31 THEN 0 ELSE (n \div Pow2(i)) % 2]

BitAnd(x, y) == [i \in BitIdx |-> x[i] * y[i]]
BitOr(x, y) == [i \in BitIdx |-> IF x[i] + y[i] > 0 THEN 1 ELSE 0]
\* x << k
Shl(x, k) == [i \in BitIdx |-> IF i >= k THEN x[i - k] ELSE 0]
\* x >> k of an int32_t: the sign bit is shifted in (gcc)
Sar(x, k) == [i \in BitIdx |-> IF i + k <= 31 THEN x[i + k] ELSE x[31]]
\* x converted to bool
NonZero(x) == \E i \in BitIdx : x[i] = 1

\* the value of the k bits i .. i+k-1 of x as an unsigned number, k <= 31
RECURSIVE BitsValue(_, _, _)
BitsValue(x, i, k) == IF k = 0 THEN 0 ELSE x[i] + 2 * BitsValue(x, i + 1, k - 1)

\* the value of the int32_t x (two's complement)
Int32(x) ==
    LET low == BitsValue(x, 0, 31)
    IN  IF x[31] = 1 THEN (low - Pow2(30)) - Pow2(30) ELSE low

\* the masks of TSensor::readChip: 0xFFFF, 0x2000, 0xFFFF000, 0xFFFE000, B111
MaskFFFF == Bits(65535)
Mask2000 == Bits(8192)
MaskFFFF000 == Bits(268431360)
MaskFFFE000 == Bits(268427264)
MaskB111 == Bits(7)

\* arithmetic on doubles whose result is exact in a double: an int32_t
\* converted, a product with a power of two, sums and differences of
\* multiples of 1/16 below 2^31
DFromInt32(x) == Fin(x, 1)
DMulExact(a, b) ==
    IF a.k = "fin" /\ b.k = "fin" THEN Fin(a.n * b.n, a.d * b.d) ELSE FMul(a, b)
DAddExact(a, b) ==
    IF a.k = "fin" /\ b.k = "fin" THEN Fin(a.n * b.d + b.n * a.d, a.d * b.d)
    ELSE FAdd(a, b)
DSubExact(a, b) == DAddExact(a, FNeg(b))

TSENSOR_RES_PROBE == Fin(1, 4)
TSENSOR_RES_AMBIENT == Fin(1, 16)

\* TSensor(cs, reversed): the constructor
NewSensor(reversed) ==
    [valRaw |-> Bits(0), valProbe |-> NAN, valAmbient |-> NAN, error |-> 0,
     reversed |-> reversed]

\* TSensor::readChip, "mask out the ambient temperature value and decode it"
DecodeAmbient(dataBuffer) ==
    LET a == Sar(BitAnd(dataBuffer, MaskFFFF), 4)
        b == IF NonZero(BitAnd(a, Mask2000)) THEN BitOr(a, MaskFFFF000) ELSE a
    IN  DMulExact(DFromInt32(Int32(b)), TSENSOR_RES_AMBIENT)

\* mutant of DecodeProbe: the word is shifted by 19 bits
DecodeProbeShift19(valRaw) ==
    LET a == Sar(valRaw, 19)
        b == IF NonZero(BitAnd(a, Mask2000)) THEN BitOr(a, MaskFFFE000) ELSE a
    IN  DMulExact(DFromInt32(Int32(b)), TSENSOR_RES_PROBE)

\* TSensor::readChip, "mask out and decode probe temperature"
DecodeProbe(valRaw) ==
    LET a == Sar(valRaw, 18)
        b == IF NonZero(BitAnd(a, Mask2000)) THEN BitOr(a, MaskFFFE000) ELSE a
    IN  DMulExact(DFromInt32(Int32(b)), TSENSOR_RES_PROBE)

\* mutant of Decode: on a fault the temperatures of the read before stay
DecodeKeepOnFault(s, dataBuffer) ==
    LET error == BitsValue(BitAnd(dataBuffer, MaskB111), 0, 8)
        amb == DecodeAmbient(dataBuffer)
        probe == DecodeProbe(dataBuffer)
    IN  IF error # 0
        THEN [s EXCEPT !.valRaw = dataBuffer, !.error = error]
        ELSE [s EXCEPT !.valRaw = dataBuffer, !.error = error,
                       !.valAmbient = amb,
                       !.valProbe = IF s.reversed
                                    THEN DAddExact(DSubExact(amb, probe), amb)
                                    ELSE probe]

\* TSensor::readChip from "save raw value" on: the sensor after the call,
\* dataBuffer being the word read
Decode(s, dataBuffer) ==
    LET error == BitsValue(BitAnd(dataBuffer, MaskB111), 0, 8)
        amb == DecodeAmbient(dataBuffer)
        probe == DecodeProbe(dataBuffer)
    IN  IF error # 0
        THEN [s EXCEPT !.valRaw = dataBuffer, !.error = error,
                       !.valAmbient = NAN, !.valProbe = NAN]
        ELSE [s EXCEPT !.valRaw = dataBuffer, !.error = error,
                       !.valAmbient = amb,
                       !.valProbe = IF s.reversed
                                    THEN DAddExact(DSubExact(amb, probe), amb)
                                    ELSE probe]

\* voltages are counted in units of 1/16 nV, temperatures in 1/16 C
MilliVolt == 16000 * 1000
TSENSOR_SENSITIVITY_MV == 41276
TSENSOR_VOLTAGE_0 == 0 * MilliVolt
TSENSOR_VOLTAGE_500 == 20644 * 16000
TSENSOR_VOLTAGE_1372 == 54886 * 16000

\* the double t, a multiple of 1/16, in units of 1/16
Sixteenths(t) == t.n * (16 \div t.d)

\* the cold junction equivalent voltage of TSensor::getProbeLinearized
\* (steps 3: the sum over c_positive plus the exponential term, or the sum
\* over c_negative), for the ambient temperatures that the words of
\* ChipWords decode to
ColdJunctionPositive == (400 :> 16003878) @@ (2048 :> 83950151) @@ (4095 :> 166326193)
ColdJunctionNegative == (-2048 :> -69715876) @@ (-1 :> -39449)
InternalVoltage(a16) ==
    IF a16 >= 0 THEN ColdJunctionPositive[a16] ELSE ColdJunctionNegative[a16]

\* steps 1, 2 and 4 of TSensor::getProbeLinearized: totalVoltage
TotalVoltage(s) ==
    (Sixteenths(s.valProbe) - Sixteenths(s.valAmbient)) * TSENSOR_SENSITIVITY_MV
        + InternalVoltage(Sixteenths(s.valAmbient))

\* the value of the inverse polynomial with the coefficients of table at
\* the voltage E: a finite double
Poly(table, E) == [k |-> "poly", table |-> table, E |-> E]

\* TSensor::getProbeLinearized: the value returned
GetProbeLinearized(s) ==
    IF IsNaN(s.valProbe) THEN NAN
    ELSE LET totalVoltage == TotalVoltage(s)
         IN  IF totalVoltage >= TSENSOR_VOLTAGE_1372 THEN NAN
             ELSE IF totalVoltage >= TSENSOR_VOLTAGE_500
                  THEN Poly("d_500_1372", totalVoltage)
             ELSE IF totalVoltage >= TSENSOR_VOLTAGE_0
                  THEN Poly("d_0_500", totalVoltage)
             ELSE Poly("d_200_0", totalVoltage)

\* the 32-bit word a MAX31855 sends: the probe field in bits 31..18, the
\* ambient field in bits 15..4, the fault bits in bits 2..0, and other in
\* each of the bits 17, 16 and 3
ChipWord(probe, amb, other, fault) ==
    [i \in BitIdx |->
        IF i >= 18 THEN (probe \div Pow2(i - 18)) % 2
        ELSE IF i \in {17, 16, 3} THEN other
        ELSE IF i >= 4 THEN (amb \div Pow2(i - 4)) % 2
        ELSE (fault \div Pow2(i)) % 2]

\* the words the chip sends in the model: probe fields for 100 C, 1000 C,
\* 2047.75 C, -2048 C and -100 C, ambient fields for 25 C, -128 C and
\* -0.0625 C, the other bits all 0 or all 1, no fault, one fault, two faults
ProbeFields == {400, 4000, 8191, 8192, 15984}
AmbientFields == {400, 2048, 4095}
FaultBits == {0, 1, 6}
ChipWords ==
    {ChipWord(p, a, o, f) : p \in ProbeFields, a \in AmbientFields,
                            o \in {0, 1}, f \in FaultBits}

\* the byte the j-th transfer of a read returns, j in 1 .. 4: the most
\* significant byte of the word first
WireByte(word, j) == [i \in BitIdx |-> IF i <= 7 THEN word[8 * (4 - j) + i] ELSE 0]

\* -------------------------------------------------------------- PIDControl
Zero == Fin(0, 1)

\* PIDControlBasic(): the constructor
NewBasic ==
    [poll |-> 0, Kp |-> Zero, Ki |-> Zero, Kd |-> Zero, e |-> Zero, i |-> Zero]

\* PIDControlBasic::Reset
BasicReset(c, Kp, Ki, Kd, dt) ==
    [c EXCEPT !.i = Zero, !.e = Zero, !.Kp = Kp, !.Ki = Ki, !.Kd = Kd, !.poll = dt]

\* PIDControlBasic::Evaluate: <<the controller after the call, the value
\* returned>>
BasicEvaluate(c, SP, PV, U) ==
    LET e == FSub(SP, PV)
        d == FDiv(FSub(e, c.e), ToDouble(c.poll))
        i == FAdd(c.i, FMul(e, ToDouble(c.poll)))
    IN  <<[c EXCEPT !.i = i, !.e = e],
          FAdd(FAdd(FMul(c.Kp, e), FMul(c.Ki, i)), FMul(c.Kd, d))>>

\* PIDControlSimple(): the constructor
NewSimple ==
    [poll |-> 0, A0 |-> Zero, A1 |-> Zero, A2 |-> Zero,
     e0 |-> Zero, e1 |-> Zero, e2 |-> Zero]

\* PIDControlSimple::Reset
SimpleReset(c, Kp, Ki, Kd, dt) ==
    LET t == ToDouble(dt)
    IN  [c EXCEPT !.poll = dt, !.e0 = Zero, !.e1 = Zero, !.e2 = Zero,
                  !.A0 = FAdd(FAdd(Kp, FMul(Ki, t)), FDiv(Kd, t)),
                  !.A1 = FSub(FNeg(Kp), FDiv(FMul(ToDouble(2), Kd), t)),
                  !.A2 = FDiv(Kd, t)]

\* mutant of SimpleEvaluate: the oldest error is not replaced
SimpleEvaluateKeepOldest(c, SP, PV, U) ==
    LET c1 == [c EXCEPT !.e1 = c.e0, !.e0 = FSub(SP, PV)]
    IN  <<c1, FAdd(FAdd(FAdd(U, FMul(c1.A0, c1.e0)), FMul(c1.A1, c1.e1)),
                   FMul(c1.A2, c1.e2))>>

\* PIDControlSimple::Evaluate: <<the controller after the call, the value
\* returned>>
SimpleEvaluate(c, SP, PV, U) ==
    LET c1 == [c EXCEPT !.e2 = c.e1, !.e1 = c.e0, !.e0 = FSub(SP, PV)]
    IN  <<c1, FAdd(FAdd(FAdd(U, FMul(c1.A0, c1.e0)), FMul(c1.A1, c1.e1)),
                   FMul(c1.A2, c1.e2))>>

\* PIDControlIIR(): the constructor
NewIIR ==
    [poll |-> 0, A0 |-> Zero, A1 |-> Zero, e0 |-> Zero, e1 |-> Zero, e2 |-> Zero,
     A0d |-> Zero, A1d |-> Zero, A2d |-> Zero, alpha1 |-> Zero, alpha2 |-> Zero,
     d0 |-> Zero, d1 |-> Zero, fd0 |-> Zero, fd1 |-> Zero]

\* mutant of IIRReset: the state of the filter is kept
IIRResetKeepFilter(c, Kp, Ki, Kd, dt) ==
    LET t == ToDouble(dt)
        alpha == FDiv(t, FDiv(FMul(ToDouble(2), Kd), FMul(Kp, ToDouble(5))))
    IN  [c EXCEPT !.e0 = Zero, !.e1 = Zero, !.e2 = Zero,
                  !.poll = dt,
                  !.A0 = FAdd(Kp, FDiv(Ki, t)),
                  !.A1 = FNeg(Kp),
                  !.A0d = FDiv(Kd, t),
                  !.A1d = FDiv(FMul(ToDouble(-2), Kd), t),
                  !.A2d = FDiv(Kd, t),
                  !.alpha1 = FDiv(alpha, FAdd(alpha, ToDouble(1))),
                  !.alpha2 = FDiv(FSub(alpha, ToDouble(1)), FAdd(alpha, ToDouble(1)))]

\* PIDControlIIR::Reset
IIRReset(c, Kp, Ki, Kd, dt) ==
    LET t == ToDouble(dt)
        alpha == FDiv(t, FDiv(FMul(ToDouble(2), Kd), FMul(Kp, ToDouble(5))))
    IN  [c EXCEPT !.d0 = Zero, !.d1 = Zero, !.fd0 = Zero, !.fd1 = Zero,
                  !.e0 = Zero, !.e1 = Zero, !.e2 = Zero,
                  !.poll = dt,
                  !.A0 = FAdd(Kp, FDiv(Ki, t)),
                  !.A1 = FNeg(Kp),
                  !.A0d = FDiv(Kd, t),
                  !.A1d = FDiv(FMul(ToDouble(-2), Kd), t),
                  !.A2d = FDiv(Kd, t),
                  !.alpha1 = FDiv(alpha, FAdd(alpha, ToDouble(1))),
                  !.alpha2 = FDiv(FSub(alpha, ToDouble(1)), FAdd(alpha, ToDouble(1)))]

\* PIDControlIIR::Evaluate: <<the controller after the call, the value
\* returned>>
IIREvaluate(c, SP, PV, U) ==
    LET c1 == [c EXCEPT !.e2 = c.e1, !.e1 = c.e0, !.e0 = FSub(SP, PV)]
        d0 == FAdd(FAdd(FMul(c1.A0d, c1.e0), FMul(c1.A1d, c1.e1)),
                   FMul(c1.A2d, c1.e2))
        fd0 == FSub(FMul(c1.alpha1, FAdd(d0, c.d0)), FMul(c1.alpha2, c.fd0))
        c2 == [c1 EXCEPT !.d1 = c.d0, !.d0 = d0, !.fd1 = c.fd0, !.fd0 = fd0]
    IN  <<c2, FAdd(FAdd(FAdd(U, FMul(c2.A0, c2.e0)), FMul(c2.A1, c2.e1)), fd0)>>

\* ------------------------------------------------------------------- state
VARIABLES
    prog,   \* the TProgram object
    clock,  \* the true time since boot, in ms; millis() is its low bits
    ret,    \* the call made last and what it returned
    hist,   \* history of the calls since the program was last reset
    sensor, \* the TSensor object
    bus,    \* the SPI bus and chip-select pin, and the position in readChip
    pid,    \* the PIDControl objects and the calls made on them
    conf    \* the JSConf object and the calls made on it

vars == <<prog, clock, ret, hist, sensor, bus, pid, conf>>

\* the sensor, the controllers and the configuration, which the scheduler
\* does not touch
devVars == <<sensor, bus, pid, conf>>

\* the scheduler, which the sensor and the controllers do not touch
schedVars == <<prog, clock, ret, hist>>

\* the bus after the constructor of TSensor: chip-select high, no
\* transaction, no call of readChip under way (pc = 0) and none made yet
\* (read)
IdleBus ==
    [pc |-> 0, locked |-> FALSE, cs |-> "HIGH", dataBuffer |-> Bits(0),
     wire |-> Bits(0), n |-> 0, read |-> FALSE,
     out |-> [op |-> "new", err |-> 0, v |-> NAN]]

\* the controllers after their constructors; args: the arguments of the
\* last Reset, n: the Evaluate calls since, inputs: the <<SP, PV>> of each
\* of them, seeded: a Reset was made, used: an Evaluate was made before
\* the last Reset, call: the last call and what each variant returned
NewPid ==
    [basic |-> NewBasic, simple |-> NewSimple, iir |-> NewIIR,
     args |-> [Kp |-> Zero, Ki |-> Zero, Kd |-> Zero, dt |-> 0], n |-> 0,
     inputs |-> <<>>, seeded |-> FALSE, used |-> FALSE,
     call |-> [op |-> "new", SP |-> Zero, PV |-> Zero, U |-> Zero,
               basic |-> Zero, simple |-> Zero, iir |-> Zero]]

\* no JSConf object: no programs, no calls
NoConf ==
    [nPrograms |-> 0, Programs |-> <<>>,
     op |-> "new", loads |-> 0, doc |-> <<>>, built |-> <<>>]

DevInit ==
    /\ sensor = NewSensor(FALSE)
    /\ bus = IdleBus
    /\ pid = NewPid
    /\ conf = NoConf

\* millis()
Millis == UL(clock)

\* the steps a caller adds: <<start temperature, end temperature, duration>>
StepChoices == {<<1, 3, 1>>, <<3, 3, 0>>}

\* the temperatures of the one step of SpecStep
StepTemps == 0 .. MaxTemp

\* the elements of a steps array of the configuration document: a step
\* with all its members, a step without "duration", and an element that is
\* no JSON object
JsonSteps ==
    { [obj |-> TRUE, f |-> [k \in {"tStart", "tEnd", "duration"} |->
                              IF k = "tStart" THEN ToDouble(1)
                              ELSE IF k = "tEnd" THEN ToDouble(3) ELSE 1]],
      [obj |-> TRUE, f |-> [k \in {"tStart", "tEnd"} |-> ToDouble(3)]],
      [obj |-> FALSE, f |-> [k \in {"tStart"} |-> ToDouble(0)]] }

\* ret: the call made last (op), the step count it found (n), its arguments
\* (arg), and the bool (b) or the double (v) it returned
Returned(op, arg, b, v) == [op |-> op, n |-> prog.nSteps, arg |-> arg, b |-> b, v |-> v]

\* hist.phase is "armed" while only steps were added and seeks made since
\* the construction or the last Reset/Clear, "running" from a Begin made
\* when armed while only CalculateSetPoint is called, "other" otherwise.
\* seeked: a seek was made since the reset; t0, tl: the true time of the
\* Begin and of the last Begin/CalculateSetPoint of the run.
Armed == [phase |-> "armed", seeked |-> FALSE, t0 |-> 0, tl |-> 0]
Other == [phase |-> "other", seeked |-> FALSE, t0 |-> 0, tl |-> 0]

Init ==
    /\ prog = NewProgram
    /\ clock = StartClock
    /\ ret = [op |-> "new", n |-> 0, arg |-> <<>>, b |-> FALSE, v |-> NAN]
    /\ hist = Armed
    /\ DevInit

\* time passes
Tick ==
    /\ clock < MaxClock
    /\ clock' = clock + 1
    /\ ret' = Returned("Tick", <<>>, FALSE, NAN)
    /\ UNCHANGED <<prog, hist>>
    /\ UNCHANGED devVars

CallAddStep ==
    /\ prog.nSteps < MaxSteps
    /\ \E c \in StepChoices :
          /\ prog' = AddStep(prog, ToDouble(c[1]), ToDouble(c[2]), c[3])
          /\ \E b \in AddStepReturns(prog) : ret' = Returned("AddStep", c, b, NAN)
    /\ hist' = IF hist.phase = "armed" THEN hist ELSE Other
    /\ UNCHANGED clock
    /\ UNCHANGED devVars

CallStepForward ==
    /\ prog' = StepForward(prog)
    /\ ret' = Returned("StepForward", <<>>, FALSE, NAN)
    /\ hist' = IF hist.phase = "armed" THEN [hist EXCEPT !.seeked = TRUE] ELSE Other
    /\ UNCHANGED clock
    /\ UNCHANGED devVars

CallStepBack ==
    /\ prog' = StepBack(prog)
    /\ ret' = Returned("StepBack", <<>>, FALSE, NAN)
    /\ hist' = IF hist.phase = "armed" THEN [hist EXCEPT !.seeked = TRUE] ELSE Other
    /\ UNCHANGED clock
    /\ UNCHANGED devVars

CallBegin ==
    /\ prog' = Begin(prog, Millis)
    /\ ret' = Returned("Begin", <<>>, FALSE, BeginReturn(prog))
    /\ hist' = IF hist.phase = "armed" /\ prog.nSteps > 0
               THEN [hist EXCEPT !.phase = "running", !.t0 = clock, !.tl = clock]
               ELSE IF hist.phase = "armed" THEN hist ELSE Other
    /\ UNCHANGED clock
    /\ UNCHANGED devVars

CallCalculateSetPoint ==
    /\ LET r == CalculateSetPoint(prog, Millis)
       IN  /\ prog' = r[1]
           /\ ret' = Returned("CalculateSetPoint", <<>>, FALSE, r[2])
           /\ hist' = IF hist.phase = "running"
                      THEN [hist EXCEPT !.tl = clock]
                      ELSE Other
    /\ UNCHANGED clock
    /\ UNCHANGED devVars

CallReset ==
    /\ prog' = Reset(prog)
    /\ ret' = Returned("Reset", <<>>, FALSE, NAN)
    /\ hist' = Armed
    /\ UNCHANGED clock
    /\ UNCHANGED devVars

CallClear ==
    /\ prog' = Clear(prog)
    /\ ret' = Returned("Clear", <<>>, FALSE, NAN)
    /\ hist' = Armed
    /\ UNCHANGED clock
    /\ UNCHANGED devVars

Next ==
    \/ Tick
    \/ CallAddStep
    \/ CallStepForward
    \/ CallStepBack
    \/ CallBegin
    \/ CallCalculateSetPoint
    \/ CallReset
    \/ CallClear

Spec == Init /\ [][Next]_vars

\* --------------------------------------------------- loading up to capacity
\* AddStep, LoadSteps and Reset on a program that may fill all of its
\* TPGM_STEPS_MAX steps; no call reads the clock
CallAddStepFull ==
    /\ \E c \in StepChoices :
          /\ prog' = AddStep(prog, ToDouble(c[1]), ToDouble(c[2]), c[3])
          /\ \E b \in AddStepReturns(prog) : ret' = Returned("AddStep", c, b, NAN)
    /\ UNCHANGED <<clock, hist>>
    /\ UNCHANGED devVars

CallLoadSteps ==
    /\ \E sarr \in UNION {[1 .. n -> JsonSteps] : n \in 0 .. MaxDocLen} :
          prog' \in LoadProgram(prog, [obj |-> TRUE, f |-> [k \in {"steps"} |-> sarr]])
    /\ ret' = Returned("LoadSteps", <<>>, FALSE, NAN)
    /\ UNCHANGED <<clock, hist>>
    /\ UNCHANGED devVars

NextLoad ==
    \/ CallAddStepFull
    \/ CallLoadSteps
    \/ CallReset

SpecLoad == Init /\ [][NextLoad]_vars

\* ------------------------------------------------------ one step, evaluated
\* a program whose first step has a duration > 0 and any temperatures of
\* StepTemps, followed or not by a step of 1 ms back to the start
\* temperature; it is armed, then begun and evaluated
InitStep ==
    /\ \E T_s \in StepTemps, T_e \in StepTemps, d \in 1 .. Modulus - 1 :
          LET one == AddStep(NewProgram, ToDouble(T_s), ToDouble(T_e), d)
          IN  prog \in {one, AddStep(one, ToDouble(T_e), ToDouble(T_s), 1)}
    /\ clock = StartClock
    /\ ret = [op |-> "new", n |-> 0, arg |-> <<>>, b |-> FALSE, v |-> NAN]
    /\ hist = Armed
    /\ DevInit

NextStep ==
    \/ Tick
    \/ CallBegin
    \/ CallCalculateSetPoint

SpecStep == InitStep /\ [][NextStep]_vars


\* ------------------------------------------------------ reading the sensor
\* the statements of TSensor::readChip that use the bus, by position pc:
\* 0 beginTransaction, 1 digitalWrite(_cs, LOW), 2 .. 5 the four
\* transfers, 6 digitalWrite(_cs, HIGH), 7 endTransaction; w is the word
\* the chip starts to send when selected

\* mutant of ReadChipStatement: the transaction is ended before the chip
\* is deselected
ReadChipEarlyRelease(b, w) ==
    CASE b.pc = 0 -> [b EXCEPT !.pc = 1, !.locked = TRUE, !.dataBuffer = Bits(0),
                               !.n = 0]
      [] b.pc = 1 -> [b EXCEPT !.pc = 2, !.cs = "LOW", !.wire = w]
      [] b.pc = 2 -> [b EXCEPT !.pc = 3, !.n = b.n + 1,
                               !.dataBuffer = WireByte(b.wire, 1)]
      [] b.pc \in 3 .. 5 ->
            [b EXCEPT !.pc = b.pc + 1, !.n = b.n + 1,
                      !.dataBuffer = BitOr(Shl(b.dataBuffer, 8),
                                           WireByte(b.wire, b.pc - 1))]
      [] b.pc = 6 -> [b EXCEPT !.pc = 7, !.locked = FALSE]
      [] b.pc = 7 -> [b EXCEPT !.pc = 8, !.cs = "HIGH"]

ReadChipStatement(b, w) ==
    CASE b.pc = 0 -> [b EXCEPT !.pc = 1, !.locked = TRUE, !.dataBuffer = Bits(0),
                               !.n = 0]
      [] b.pc = 1 -> [b EXCEPT !.pc = 2, !.cs = "LOW", !.wire = w]
      [] b.pc = 2 -> [b EXCEPT !.pc = 3, !.n = b.n + 1,
                               !.dataBuffer = WireByte(b.wire, 1)]
      [] b.pc \in 3 .. 5 ->
            [b EXCEPT !.pc = b.pc + 1, !.n = b.n + 1,
                      !.dataBuffer = BitOr(Shl(b.dataBuffer, 8),
                                           WireByte(b.wire, b.pc - 1))]
      [] b.pc = 6 -> [b EXCEPT !.pc = 7, !.cs = "HIGH"]
      [] b.pc = 7 -> [b EXCEPT !.pc = 8, !.locked = FALSE]

InitSensor ==
    /\ prog = NewProgram
    /\ clock = StartClock
    /\ ret = [op |-> "new", n |-> 0, arg |-> <<>>, b |-> FALSE, v |-> NAN]
    /\ hist = Armed
    /\ \E reversed \in BOOLEAN : sensor = NewSensor(reversed)
    /\ bus = IdleBus
    /\ pid = NewPid
    /\ conf = NoConf

\* readChip is called: int32_t dataBuffer = 0; _spi->beginTransaction(...)
ReadBeginTransaction ==
    /\ bus.pc = 0
    /\ bus' = ReadChipStatement(bus, bus.wire)
    /\ UNCHANGED <<sensor, pid, conf>>
    /\ UNCHANGED schedVars

\* digitalWrite(_cs, LOW): the chip starts to send the word it holds
ReadSelect ==
    /\ bus.pc = 1
    /\ \E w \in ChipWords : bus' = ReadChipStatement(bus, w)
    /\ UNCHANGED <<sensor, pid, conf>>
    /\ UNCHANGED schedVars

\* one of the four _spi->transfer(0)
ReadTransfer ==
    /\ bus.pc \in 2 .. 5
    /\ bus' = ReadChipStatement(bus, bus.wire)
    /\ UNCHANGED <<sensor, pid, conf>>
    /\ UNCHANGED schedVars

\* digitalWrite(_cs, HIGH)
ReadDeselect ==
    /\ bus.pc = 6
    /\ bus' = ReadChipStatement(bus, bus.wire)
    /\ UNCHANGED <<sensor, pid, conf>>
    /\ UNCHANGED schedVars

\* _spi->endTransaction()
ReadEndTransaction ==
    /\ bus.pc = 7
    /\ bus' = ReadChipStatement(bus, bus.wire)
    /\ UNCHANGED <<sensor, pid, conf>>
    /\ UNCHANGED schedVars

\* the rest of readChip: the word is decoded and the error returned
ReadDecode ==
    /\ bus.pc = 8
    /\ sensor' = Decode(sensor, bus.dataBuffer)
    /\ bus' = [bus EXCEPT !.pc = 0, !.read = TRUE,
                          !.out = [op |-> "readChip", err |-> sensor'.error, v |-> NAN]]
    /\ UNCHANGED <<pid, conf>>
    /\ UNCHANGED schedVars

CallGetProbeLinearized ==
    /\ bus.pc = 0
    /\ bus' = [bus EXCEPT !.out = [op |-> "getProbeLinearized", err |-> 0,
                                   v |-> GetProbeLinearized(sensor)]]
    /\ UNCHANGED <<sensor, pid, conf>>
    /\ UNCHANGED schedVars

NextSensor ==
    \/ ReadBeginTransaction
    \/ ReadSelect
    \/ ReadTransfer
    \/ ReadDeselect
    \/ ReadEndTransaction
    \/ ReadDecode
    \/ CallGetProbeLinearized

SpecSensor == InitSensor /\ [][NextSensor]_vars

\* ------------------------------------------------- running the controllers
\* a PIDControlBasic, a PIDControlSimple and a PIDControlIIR driven side by
\* side: each Reset and each Evaluate is made on all with the same arguments
\* the gains of a Reset: none or the largest; its poll intervals: none, 1 ms
\* or the longest
Gains == { ToDouble(0), ToDouble(MaxGain) }
Polls == { 0, 1, MaxPoll }
\* the inputs of an Evaluate: the process value is below, at or above the
\* setpoint
SetPoints == { ToDouble(0), ToDouble(1), ToDouble(2) }
ProcessValues == { ToDouble(1) }
Outputs == { ToDouble(0), ToDouble(1) }

InitPid ==
    /\ prog = NewProgram
    /\ clock = StartClock
    /\ ret = [op |-> "new", n |-> 0, arg |-> <<>>, b |-> FALSE, v |-> NAN]
    /\ hist = Armed
    /\ DevInit

\* Reset(Kp, Ki, Kd, dt)
PidReset ==
    /\ \E Kp \in Gains, Ki \in Gains, Kd \in Gains, dt \in Polls :
          pid' = [pid EXCEPT !.basic = BasicReset(pid.basic, Kp, Ki, Kd, dt),
                             !.simple = SimpleReset(pid.simple, Kp, Ki, Kd, dt),
                             !.iir = IIRReset(pid.iir, Kp, Ki, Kd, dt),
                             !.args = [Kp |-> Kp, Ki |-> Ki, Kd |-> Kd, dt |-> dt],
                             !.n = 0,
                             !.inputs = <<>>,
                             !.seeded = TRUE,
                             !.used = pid.used \/ pid.n > 0,
                             !.call = [op |-> "Reset", SP |-> Zero, PV |-> Zero,
                                       U |-> Zero, basic |-> Zero,
                                       simple |-> Zero, iir |-> Zero]]
    /\ UNCHANGED <<sensor, bus, conf>>
    /\ UNCHANGED schedVars

\* Evaluate(SP, PV, U)
PidEvaluate ==
    /\ pid.n < MaxEvals
    /\ \E SP \in SetPoints, PV \in ProcessValues, U \in Outputs :
          LET b == BasicEvaluate(pid.basic, SP, PV, U)
              s == SimpleEvaluate(pid.simple, SP, PV, U)
              i == IIREvaluate(pid.iir, SP, PV, U)
          IN  pid' = [pid EXCEPT !.basic = b[1],
                                 !.simple = s[1],
                                 !.iir = i[1],
                                 !.n = pid.n + 1,
                                 !.inputs = Append(pid.inputs, <<SP, PV>>),
                                 !.call = [op |-> "Evaluate", SP |-> SP, PV |-> PV,
                                           U |-> U, basic |-> b[2],
                                           simple |-> s[2], iir |-> i[2]]]
    /\ UNCHANGED <<sensor, bus, conf>>
    /\ UNCHANGED schedVars

NextPid ==
    \/ PidReset
    \/ PidEvaluate

SpecPid == InitPid /\ [][NextPid]_vars


\* ------------------------------------------------ loading the configuration
\* the steps of the programs of a document
FullStep ==
    [obj |-> TRUE, f |-> [k \in {"tStart", "tEnd", "duration"} |->
                            IF k = "tStart" THEN ToDouble(1)
                            ELSE IF k = "tEnd" THEN ToDouble(3) ELSE 1]]

\* a steps array that holds each element of JsonSteps, the one that is no
\* JSON object first
MixedSteps ==
    << [obj |-> FALSE, f |-> [k \in {"tStart"} |-> ToDouble(0)]],
       FullStep,
       [obj |-> TRUE, f |-> [k \in {"tStart", "tEnd"} |-> ToDouble(3)]] >>

\* the elements of a programs array: one that is no JSON object, a program
\* without "steps", a program of one step without a name, a program whose
\* name fills _name and whose steps are those of JsonSteps, and a program
\* with the longest name and the longest steps array
ProgramObjects ==
    { [obj |-> FALSE, f |-> [k \in {"name"} |-> CString(1)]],
      [obj |-> TRUE, f |-> [k \in {"name"} |-> CString(1)]],
      [obj |-> TRUE, f |-> [k \in {"steps"} |-> <<FullStep>>]],
      [obj |-> TRUE, f |-> [k \in {"name", "steps"} |->
                              IF k = "name" THEN CString(TPGM_NAME_LEN - 1)
                              ELSE MixedSteps]],
      [obj |-> TRUE, f |-> [k \in {"name", "steps"} |->
                              IF k = "name" THEN CString(MaxNameLen)
                              ELSE [j \in 1 .. MaxDocSteps |-> FullStep]]] }

\* the programs arrays: empty, or one program or the most programs of a kind
ProgramArrays ==
    {<<>>} \cup { [i \in 1 .. n |-> pobj] :
                     n \in {1, MaxDocPrograms}, pobj \in ProgramObjects }

InitConf ==
    /\ prog = NewProgram
    /\ clock = StartClock
    /\ ret = [op |-> "new", n |-> 0, arg |-> <<>>, b |-> FALSE, v |-> NAN]
    /\ hist = Armed
    /\ sensor = NewSensor(FALSE)
    /\ bus = IdleBus
    /\ pid = NewPid
    /\ conf = NewConf

\* UpdateRunningPrograms(jaPrograms, startup), with an array of
\* ProgramArrays or the array BuildRunningPrograms wrote last
CallUpdateRunningPrograms ==
    /\ conf.loads < MaxLoads
    /\ \E jaPrograms \in ProgramArrays \cup {conf.built} :
          \E c \in UpdateRunningPrograms(conf, jaPrograms) :
             conf' = [c EXCEPT !.op = "UpdateRunningPrograms",
                               !.loads = conf.loads + 1,
                               !.doc = jaPrograms]
    /\ UNCHANGED <<sensor, bus, pid>>
    /\ UNCHANGED schedVars

\* BuildRunningPrograms(jaPrograms) on an empty array
CallBuildRunningPrograms ==
    /\ conf.op = "UpdateRunningPrograms"
    /\ conf' = [conf EXCEPT !.op = "BuildRunningPrograms",
                            !.built = BuildRunningPrograms(conf)]
    /\ UNCHANGED <<sensor, bus, pid>>
    /\ UNCHANGED schedVars

NextConf ==
    \/ CallUpdateRunningPrograms
    \/ CallBuildRunningPrograms

SpecConf == InitConf /\ [][NextConf]_vars


\* ------------------------------------------------------------------ claims
\* the sum of the durations of the loaded steps 0 .. n-1
RECURSIVE SumDurations(_, _)
SumDurations(p, n) ==
    IF n = 0 THEN 0 ELSE SumDurations(p, n - 1) + p.steps[n - 1].duration

\* every loaded step has a duration > 0
PositiveDurations(p) == \A i \in 0 .. p.nSteps - 1 : p.steps[i].duration > 0

\* a run begun on a reset, never seeked program and only evaluated since
PlainRun == hist.phase = "running" /\ ~hist.seeked

\* C1: in a run begun from reset on a program whose steps have a duration
\* > 0, CalculateSetPoint returns invalid (NaN) exactly when the time elapsed
\* since Begin is greater than the total duration of the program (the run
\* being shorter than one period of the timer)
C1_CompleteExactlyWhenExceeded ==
    (PlainRun /\ PositiveDurations(prog) /\ ret.op = "CalculateSetPoint"
     /\ clock - hist.t0 < Modulus)
        => (IsNaN(ret.v) <=> clock - hist.t0 > SumDurations(prog, prog.nSteps))

\* C2: the total duration is the sum of the durations of the loaded steps,
\* and the due-time of step i is the sum of the durations of steps 0 .. i
C2_TotalIsSumOfDurations ==
    /\ prog.totalDuration = SumDurations(prog, prog.nSteps)
    /\ \A i \in 0 .. prog.nSteps - 1 :
          prog.steps[i].dueTime = SumDurations(prog, i + 1)

\* C3: no loaded step has duration 0: the due-times increase strictly with
\* the step index and every stored slope is a number
C3_NoZeroDuration ==
    /\ PositiveDurations(prog)
    /\ \A i \in 1 .. prog.nSteps - 1 :
          prog.steps[i - 1].dueTime < prog.steps[i].dueTime
    /\ \A i \in 0 .. prog.nSteps - 1 : prog.steps[i].slope.k = "fin"

\* C4: the step count never exceeds TPGM_STEPS_MAX, and an AddStep on a
\* full program returns false and changes nothing; an AddStep that changes
\* the program writes the step at an index inside the array
C4_AddStepRejectsWhenFull ==
    /\ [](prog.nSteps <= TPGM_STEPS_MAX)
    /\ [][ret'.op = "AddStep" =>
            IF prog.nSteps >= TPGM_STEPS_MAX
            THEN prog' = prog /\ ret'.b = FALSE
            ELSE prog.nSteps \in DOMAIN prog.steps]_vars

\* C4 witness: an AddStep has found the program full
C4_Witness ==
    ret.op = "AddStep" /\ ret.n = TPGM_STEPS_MAX /\ prog.nSteps = TPGM_STEPS_MAX

\* C5: an AddStep on a program that is not full appends the step given,
\* increments the step count and returns true
C5_AddStepAppendsAndReturnsTrue ==
    (ret.op = "AddStep" /\ ret.n < TPGM_STEPS_MAX)
        => /\ prog.nSteps = ret.n + 1
           /\ prog.steps[ret.n].T_start = ToDouble(ret.arg[1])
           /\ prog.steps[ret.n].T_end = ToDouble(ret.arg[2])
           /\ prog.steps[ret.n].duration = ret.arg[3]
           /\ ret.b = TRUE

\* C6: Begin on a program without steps returns invalid (NaN); Begin on a
\* reset, never seeked program with steps returns the start temperature of
\* step 0
C6_BeginReturnsStartOfStep0 ==
    ret.op = "Begin"
        => /\ ret.n = 0 => IsNaN(ret.v)
           /\ (ret.n > 0 /\ PlainRun) => FEq(ret.v, prog.steps[0].T_start)

\* C7: Begin changes neither the step index nor the elapsed time of the
\* program: with steps it sets the last timestamp to millis() and the time
\* within the step to 0, without steps it changes nothing
C7_BeginFrame ==
    [][ret'.op = "Begin" =>
          /\ prog'.idx = prog.idx
          /\ prog'.timeElapsed = prog.timeElapsed
          /\ prog' = IF prog.nSteps = 0 THEN prog
                     ELSE [prog EXCEPT !.timeLast = Millis, !.timeElapsedStep = 0]]_vars

\* C7 witness: Begin was called on a program positioned on step 1 by a seek
C7_Witness ==
    /\ ret.op = "Begin" /\ hist.phase = "running" /\ hist.seeked
    /\ prog.idx = 1 /\ prog.timeElapsed > 0

\* the elapsed time at which step i starts: dueTime - duration
StepStart(p, i) == UL(p.steps[i].dueTime - p.steps[i].duration)

\* C8: on an armed program with steps a seek moves the index by one, or
\* leaves it when that would leave 0 .. n-1, and then the elapsed time is
\* dueTime - duration of the step the index is on; a Begin that follows
\* returns the setpoint at the start of that step
C8_SeekSetsElapsed ==
    /\ [][(hist.phase = "armed" /\ prog.nSteps >= 1
           /\ ret'.op \in {"StepForward", "StepBack"}) =>
            /\ prog'.idx = LET i == prog.idx + (IF ret'.op = "StepForward" THEN 1 ELSE -1)
                           IN  IF i \in 0 .. prog.nSteps - 1 THEN i ELSE prog.idx
            /\ prog'.timeElapsed = StepStart(prog', prog'.idx)]_vars
    /\ []((hist.phase = "running" /\ ret.op = "Begin") =>
            /\ prog.timeElapsed = StepStart(prog, prog.idx)
            /\ ret.v = StepCalculateSetPoint(prog.steps[prog.idx], 0))

\* C8 witness: a seek forward has moved an armed program to step 1
C8_Witness ==
    /\ ret.op = "StepForward" /\ hist.phase = "armed"
    /\ prog.idx = 1 /\ prog.timeElapsed > 0

\* CalculateSetPoint has returned the setpoint of the step the index is on
ReturnedSetPoint ==
    /\ ret.op = "CalculateSetPoint"
    /\ prog.timeElapsed <= prog.totalDuration
    /\ prog.idx < prog.nSteps

\* the time within the step: duration - (dueTime - elapsed), unsigned
WithinStep(p) ==
    UL(p.steps[p.idx].duration - UL(p.steps[p.idx].dueTime - p.timeElapsed))

\* |x - y| of two finite doubles, as the exact fraction [n, d]
AbsDiff(x, y) == [n |-> Abs(x.n * y.d - y.n * x.d), d |-> x.d * y.d]

\* v is within floating-point tolerance of the end temperature of step s:
\* |v - T_end| <= 2^-MantBits * (4 * |T_end - T_start| + |T_end|), the bound
\* of the four roundings of (T_end - T_start) / duration * duration + T_start
WithinTolerance(v, s) ==
    /\ v.k = "fin"
    /\ LET e == AbsDiff(v, s.T_end)
           D == AbsDiff(s.T_end, s.T_start)
           a == [n |-> Abs(s.T_end.n), d |-> s.T_end.d]
       IN  e.n * (D.d * a.d * MantHi) <= (4 * D.n * a.d + a.n * D.d) * e.d

\* C9 as stated: the setpoint returned is slope * t + T_start of the current
\* step at t = duration - (dueTime - elapsed); for a step with duration > 0
\* it equals T_start at t = 0 and T_end at t = duration
C9_SetPointAtEndpointsExact ==
    ReturnedSetPoint =>
        LET s == prog.steps[prog.idx]
            t == WithinStep(prog)
        IN  /\ prog.timeElapsedStep = t
            /\ ret.v = StepCalculateSetPoint(s, t)
            /\ (s.duration > 0 /\ t = 0) => FEq(ret.v, s.T_start)
            /\ (s.duration > 0 /\ t = s.duration) => FEq(ret.v, s.T_end)

\* C9 amended: as C9, the setpoint at t = duration being equal to T_end
\* within floating-point tolerance
C9_SetPointAtEndpoints ==
    ReturnedSetPoint =>
        LET s == prog.steps[prog.idx]
            t == WithinStep(prog)
        IN  /\ prog.timeElapsedStep = t
            /\ ret.v = StepCalculateSetPoint(s, t)
            /\ (s.duration > 0 /\ t = 0) => FEq(ret.v, s.T_start)
            /\ (s.duration > 0 /\ t = s.duration) => WithinTolerance(ret.v, s)

\* C9 witness: the setpoint returned at the end of a step differs from the
\* end temperature of the step
C9_Witness ==
    /\ ReturnedSetPoint
    /\ prog.steps[prog.idx].duration > 0
    /\ WithinStep(prog) = prog.steps[prog.idx].duration
    /\ ~FEq(ret.v, prog.steps[prog.idx].T_end)

\* C10: when millis() has wrapped between two consecutive evaluations of a
\* running, not yet complete program that are less than Modulus apart, the
\* elapsed time advances by their true distance (modulo Modulus) and the
\* setpoint returned is that of an evaluation without wrap: last timestamp
\* 0, millis() the true distance
C10_WrapSafeDelta ==
    [][(/\ hist.phase = "running" /\ ret'.op = "CalculateSetPoint"
        /\ prog.timeElapsed <= prog.totalDuration
        /\ clock - hist.tl < Modulus
        /\ clock \div Modulus > hist.tl \div Modulus) =>
          /\ prog'.timeElapsed = UL(prog.timeElapsed + (clock - hist.tl))
          /\ ret'.v = CalculateSetPoint([prog EXCEPT !.timeLast = 0],
                                        clock - hist.tl)[2]]_vars

\* C10 witness: a run begun before the timer wrapped was evaluated after
\* the wrap, and the elapsed time is the true time since Begin
C10_Witness ==
    /\ hist.phase = "running" /\ ret.op = "CalculateSetPoint"
    /\ hist.t0 < Modulus /\ clock >= Modulus /\ hist.tl = clock
    /\ prog.timeElapsed = clock - hist.t0
    /\ ~IsNaN(ret.v)

\* the program a caller gets by adding the loaded steps of p, in order, to
\* a new program: steps 0 .. n-1
RECURSIVE Reloaded(_, _)
Reloaded(p, n) ==
    IF n = 0 THEN NewProgram
    ELSE AddStep(Reloaded(p, n - 1), p.steps[n - 1].T_start,
                 p.steps[n - 1].T_end, p.steps[n - 1].duration)

\* p and q hold the same counters and the same loaded steps
SameProgram(p, q) ==
    /\ p.timeElapsed = q.timeElapsed /\ p.timeElapsedStep = q.timeElapsedStep
    /\ p.timeLast = q.timeLast /\ p.idx = q.idx
    /\ p.totalDuration = q.totalDuration /\ p.nSteps = q.nSteps
    /\ \A i \in 0 .. p.nSteps - 1 : p.steps[i] = q.steps[i]

C12_ClearedIsInvalid ==
    /\ ret.op = "Clear" => (prog.nSteps = 0 /\ prog.totalDuration = 0 /\ ~IsValid(prog))
    /\ (ret.op \in {"Begin", "CalculateSetPoint"} /\ ret.n = 0) => IsNaN(ret.v)
    /\ (ret.op = "AddStep" /\ ret.n = 0) =>
           (prog.steps[0].dueTime = prog.steps[0].duration
            /\ prog.totalDuration = prog.steps[0].duration)

\* readChip has returned and no other call of it is under way
ReadDone == bus.pc = 0 /\ bus.read

\* the k-bit field of the raw word at bit i, as a two's complement number
SignedField(x, i, k) ==
    LET u == BitsValue(x, i, k)
    IN  IF u >= Pow2(k - 1) THEN u - Pow2(k) ELSE u

\* C13: once readChip has returned, the raw word stored is the word the
\* chip sent; when any of its bits 2..0 is set, the error is exactly those
\* bits, the probe and ambient temperatures are NaN whatever the other
\* bits and the reads before were, and getProbeLinearized returns NaN
C13_FaultForcesInvalid ==
    ReadDone =>
        /\ sensor.valRaw = bus.wire
        /\ bus.out.op = "readChip" => bus.out.err = sensor.error
        /\ BitsValue(sensor.valRaw, 0, 3) # 0 =>
              /\ sensor.error = BitsValue(sensor.valRaw, 0, 3)
              /\ IsNaN(sensor.valProbe) /\ IsNaN(sensor.valAmbient)
              /\ IsNaN(GetProbeLinearized(sensor))
              /\ bus.out.op = "getProbeLinearized" => IsNaN(bus.out.v)

\* C13 witness: getProbeLinearized was called after a read of a word with
\* two fault bits set, all other bits of the word set as well
C13_Witness ==
    /\ ReadDone /\ bus.out.op = "getProbeLinearized"
    /\ sensor.error = 6 /\ sensor.valRaw[31] = 1 /\ sensor.valRaw[17] = 1

\* C14: after a read without fault the ambient temperature is the two's
\* complement value of bits 15..4 of the raw word times 0.0625, negative
\* when bit 15 is set
C14_AmbientSigned12 ==
    (ReadDone /\ BitsValue(sensor.valRaw, 0, 3) = 0) =>
        /\ sensor.valAmbient = Fin(SignedField(sensor.valRaw, 4, 12), 16)
        /\ sensor.valRaw[15] = 1 => sensor.valAmbient.n < 0

\* C15: after a read without fault by a sensor that is not reversed the
\* probe temperature is the two's complement value of bits 31..18 of the
\* raw word times 0.25
C15_ProbeSigned14 ==
    (ReadDone /\ BitsValue(sensor.valRaw, 0, 3) = 0 /\ ~sensor.reversed) =>
        sensor.valProbe = Fin(SignedField(sensor.valRaw, 18, 14), 4)

\* C15 witness: a word with a negative odd probe field, the bits 17, 16
\* and 3 set and a negative ambient field was read without fault
C15_Witness ==
    /\ ReadDone /\ bus.out.op = "readChip" /\ ~sensor.reversed
    /\ sensor.error = 0 /\ sensor.valProbe.k = "fin" /\ sensor.valProbe.n < 0
    /\ sensor.valRaw[17] = 1 /\ sensor.valRaw[15] = 1

\* the voltage of a type K thermocouple at -200 C, the bottom of the
\* lowest sub-range of the inverse polynomials: -5.891 mV
VoltageAtMinus200 == -5891 * 16000

\* C16: getProbeLinearized on a valid reading returns NaN when the total
\* voltage is at or above the top of the highest sub-range or below the
\* bottom of the lowest, and otherwise the value of the polynomial of the
\* sub-range that contains the voltage (for words whose ambient field is
\* not negative)
C16_OutOfRangeIsInvalid ==
    (ReadDone /\ bus.out.op = "getProbeLinearized" /\ ~IsNaN(sensor.valProbe)
     /\ sensor.valRaw[15] = 0) =>
        LET E == TotalVoltage(sensor)
        IN  IF E >= TSENSOR_VOLTAGE_1372 \/ E < VoltageAtMinus200
            THEN IsNaN(bus.out.v)
            ELSE bus.out.v = Poly(IF E >= TSENSOR_VOLTAGE_500 THEN "d_500_1372"
                                  ELSE IF E >= TSENSOR_VOLTAGE_0 THEN "d_0_500"
                                  ELSE "d_200_0", E)

\* C17: a transfer is made only inside the transaction and with the chip
\* selected; the chip is selected only inside the transaction, so the
\* transaction begins before the chip is selected and ends after it is
\* deselected; when readChip returns, fault or not, four transfers were
\* made, the transaction is ended and chip-select is high
C17_BusTransaction ==
    /\ [](bus.cs = "LOW" => bus.locked)
    /\ [](bus.pc = 0 => (~bus.locked /\ bus.cs = "HIGH"))
    /\ []((bus.pc = 0 /\ bus.out.op = "readChip") => bus.n = 4)
    /\ [][bus'.n = bus.n + 1 =>
            (bus.locked /\ bus.cs = "LOW" /\ bus'.locked /\ bus'.cs = "LOW")]_vars
    /\ [][bus'.locked # bus.locked => (bus.cs = "HIGH" /\ bus'.cs = "HIGH")]_vars

\* C17 witness: a read that reports a fault has returned
C17_Witness ==
    /\ bus.pc = 0 /\ bus.out.op = "readChip" /\ bus.out.err # 0
    /\ bus.n = 4 /\ ~bus.locked /\ bus.cs = "HIGH"

\* C18: after PIDControlIIR::Reset with Kd = 0 and a poll interval > 0 the
\* filter coefficients are numbers, and every Evaluate made since returns a
\* number, neither NaN nor an infinity
C18_IIRResetGuardsZeroKd ==
    (pid.call.op # "new" /\ FEq(pid.args.Kd, Zero) /\ pid.args.dt > 0) =>
        /\ pid.iir.alpha1.k = "fin"
        /\ pid.iir.alpha2.k = "fin"
        /\ pid.call.op = "Evaluate" => pid.call.iir.k = "fin"

\* C19: the first Evaluate after Reset(0, 0, 0, pollMs) with pollMs > 0
\* returns lastOutput, in the Simple variant and in the IIR variant
C19_ZeroGainsReturnLastOutput ==
    (/\ pid.call.op = "Evaluate" /\ pid.n = 1
     /\ FEq(pid.args.Kp, Zero) /\ FEq(pid.args.Ki, Zero) /\ FEq(pid.args.Kd, Zero)
     /\ pid.args.dt > 0) =>
        /\ FEq(pid.call.simple, pid.call.U)
        /\ FEq(pid.call.iir, pid.call.U)

\* C20: after Reset(Kp, Ki, Kd, dt) with dt > 0 the IIR variant holds
\* A0 = Kp + Ki*dt and A1 = -Kp, and an Evaluate whose filtered derivative
\* is zero returns what the Simple recurrence without its Kd terms returns:
\* U + A0*e0 + A1*e1
C20_IIRSharesSimpleBase ==
    (pid.call.op # "new" /\ pid.args.dt > 0) =>
        LET A0 == FAdd(pid.args.Kp, FMul(pid.args.Ki, ToDouble(pid.args.dt)))
            A1 == FNeg(pid.args.Kp)
        IN  /\ FEq(pid.iir.A0, A0)
            /\ FEq(pid.iir.A1, A1)
            /\ (pid.call.op = "Evaluate" /\ FEq(pid.iir.fd0, Zero)) =>
                  FEq(pid.call.iir,
                      FAdd(FAdd(pid.call.U, FMul(A0, pid.iir.e0)),
                           FMul(A1, pid.iir.e1)))

\* the error of the k-th Evaluate since the last Reset, 0 before the first
ErrorAt(k) ==
    IF k >= 1 THEN FSub(pid.inputs[k][1], pid.inputs[k][2]) ELSE Zero

\* C21: after Reset(Kp, Ki, Kd, dt) the Simple variant holds
\* A0 = Kp + Ki*dt + Kd/dt, A1 = -Kp - 2*Kd/dt and A2 = Kd/dt, which no
\* Evaluate changes; it keeps the errors of the last three calls (0 before
\* the first), and its n-th Evaluate returns
\* U_n + A0*e_n + A1*e_(n-1) + A2*e_(n-2)
C21_SimpleRecurrence ==
    pid.seeded =>
        LET t == ToDouble(pid.args.dt)
            A0 == FAdd(FAdd(pid.args.Kp, FMul(pid.args.Ki, t)), FDiv(pid.args.Kd, t))
            A1 == FSub(FNeg(pid.args.Kp), FDiv(FMul(ToDouble(2), pid.args.Kd), t))
            A2 == FDiv(pid.args.Kd, t)
            n == Len(pid.inputs)
        IN  /\ pid.simple.A0 = A0 /\ pid.simple.A1 = A1 /\ pid.simple.A2 = A2
            /\ pid.simple.e0 = ErrorAt(n)
            /\ pid.simple.e1 = ErrorAt(n - 1)
            /\ pid.simple.e2 = ErrorAt(n - 2)
            /\ pid.call.op = "Evaluate" =>
                  pid.call.simple =
                      FAdd(FAdd(FAdd(pid.call.U, FMul(A0, ErrorAt(n))),
                                FMul(A1, ErrorAt(n - 1))),
                           FMul(A2, ErrorAt(n - 2)))

\* a third Evaluate after a Reset with a derivative gain and a poll
\* interval, whose three errors are all different from 0
C21_Witness ==
    /\ pid.seeded /\ pid.call.op = "Evaluate" /\ Len(pid.inputs) = 3
    /\ ~FEq(pid.args.Kd, Zero) /\ pid.args.dt > 1
    /\ \A k \in 1 .. 3 : ~FEq(ErrorAt(k), Zero)
    /\ pid.call.simple.k = "fin" /\ pid.call.simple # pid.call.U

\* the smaller of two numbers
Min(a, b) == IF a < b THEN a ELSE b

\* a programs array without the entries beyond either maximum
Truncated(jaPrograms) ==
    [i \in 1 .. Min(Len(jaPrograms), DEFAULT_MAX_PROGRAMS) |->
        IF "steps" \in DOMAIN jaPrograms[i].f
        THEN [jaPrograms[i] EXCEPT
                 !.f["steps"] = SubSeq(@, 1, Min(Len(@), TPGM_STEPS_MAX))]
        ELSE jaPrograms[i]]

\* C22: nPrograms never exceeds DEFAULT_MAX_PROGRAMS and no stored program
\* holds more than TPGM_STEPS_MAX steps; UpdateRunningPrograms leaves what
\* it leaves when given the array without the entries beyond the maxima
C22_LoadIsCapped ==
    /\ [](/\ conf.nPrograms <= DEFAULT_MAX_PROGRAMS
          /\ \A i \in DOMAIN conf.Programs :
                conf.Programs[i].nSteps <= TPGM_STEPS_MAX)
    /\ [][conf'.op = "UpdateRunningPrograms" =>
            \E c \in UpdateRunningPrograms(conf, Truncated(conf'.doc)) :
               /\ conf'.nPrograms = c.nPrograms
               /\ conf'.Programs = c.Programs]_vars

\* an array of more than DEFAULT_MAX_PROGRAMS programs of more than
\* TPGM_STEPS_MAX steps each was loaded, and the last program is full
C22_Witness ==
    /\ conf.op = "UpdateRunningPrograms"
    /\ Len(conf.doc) > DEFAULT_MAX_PROGRAMS
    /\ "steps" \in DOMAIN conf.doc[1].f
    /\ Len(conf.doc[1].f["steps"]) > TPGM_STEPS_MAX
    /\ conf.nPrograms = DEFAULT_MAX_PROGRAMS
    /\ conf.Programs[DEFAULT_MAX_PROGRAMS - 1].nSteps = TPGM_STEPS_MAX

\* CalculateSetPoint has returned a setpoint in a run begun from reset
ValidInPlainRun ==
    PlainRun /\ ret.op = "CalculateSetPoint" /\ ~IsNaN(ret.v)

\* the index is on the first loaded step whose due-time is not before E
OnStepAt(p, E) ==
    /\ p.idx \in 0 .. p.nSteps - 1
    /\ E <= p.steps[p.idx].dueTime
    /\ \A j \in 0 .. p.idx - 1 : E > p.steps[j].dueTime

\* C23: when CalculateSetPoint returns a setpoint in a run begun from
\* reset, E being the time since Begin, the index is the smallest i with
\* E <= dueTime[i], and at E = dueTime[i] the setpoint is the end temperature
\* of step i (within floating-point tolerance, see C9)
C23_IndexAtElapsed ==
    ValidInPlainRun =>
        /\ OnStepAt(prog, clock - hist.t0)
        /\ clock - hist.t0 = prog.steps[prog.idx].dueTime =>
              WithinTolerance(ret.v, prog.steps[prog.idx])

\* C24: the index designates a loaded step, 0 <= idx <= nSteps - 1 (idx = 0
\* for a program without steps), and no CalculateSetPoint decreases it
C24_IndexInRange ==
    /\ [](IF prog.nSteps = 0 THEN prog.idx = 0
          ELSE prog.idx \in 0 .. prog.nSteps - 1)
    /\ [][ret'.op = "CalculateSetPoint" => prog'.idx >= prog.idx]_vars

\* C24 witness: CalculateSetPoint has moved the index to the last step
C24_Witness ==
    /\ ret.op = "CalculateSetPoint" /\ ~IsNaN(ret.v)
    /\ prog.nSteps = MaxSteps /\ prog.idx = prog.nSteps - 1
    /\ ~hist.seeked /\ hist.phase = "running"

\* C25: in a run, once the elapsed counter has passed the total duration
\* (CalculateSetPoint has returned invalid for it), every CalculateSetPoint
\* returns invalid, whatever the clock, until Reset or Clear
C25_CompletionIsTerminal ==
    [][(/\ hist.phase = "running"
        /\ prog.timeElapsed > prog.totalDuration
        /\ ret'.op = "CalculateSetPoint") => IsNaN(ret'.v)]_vars

\* C26: in a run begun at t0 from reset, after a CalculateSetPoint at t
\* the elapsed counter is (t - t0) modulo Modulus
C26_ElapsedIsWallClock ==
    (PlainRun /\ ret.op = "CalculateSetPoint") =>
        prog.timeElapsed = UL(clock - hist.t0)

\* v lies between the start and the end temperature of step s
BetweenEnds(v, s) ==
    \/ FLe(s.T_start, v) /\ FLe(v, s.T_end)
    \/ FLe(s.T_end, v) /\ FLe(v, s.T_start)

\* C27: when CalculateSetPoint returns a setpoint (in a run begun from
\* reset that is shorter than one period of the timer), the time within the
\* step is at most the duration of the current step and the setpoint lies
\* between the start and the end temperature of that step
C27_WithinStepBounded ==
    (ValidInPlainRun /\ clock - hist.t0 < Modulus) =>
        /\ prog.idx \in 0 .. prog.nSteps - 1
        /\ prog.timeElapsedStep <= prog.steps[prog.idx].duration
        /\ prog.steps[prog.idx].dueTime - prog.timeElapsed
              \in 0 .. prog.steps[prog.idx].duration
        /\ BetweenEnds(ret.v, prog.steps[prog.idx])

\* the controllers a new instance becomes by the last Reset and the
\* Evaluate calls of the given inputs (the output fed back plays no part in
\* the state a call leaves)
RECURSIVE BasicAfter(_, _)
BasicAfter(c, inputs) ==
    IF inputs = <<>> THEN c
    ELSE BasicAfter(BasicEvaluate(c, inputs[1][1], inputs[1][2], Zero)[1],
                    Tail(inputs))

RECURSIVE SimpleAfter(_, _)
SimpleAfter(c, inputs) ==
    IF inputs = <<>> THEN c
    ELSE SimpleAfter(SimpleEvaluate(c, inputs[1][1], inputs[1][2], Zero)[1],
                     Tail(inputs))

RECURSIVE IIRAfter(_, _)
IIRAfter(c, inputs) ==
    IF inputs = <<>> THEN c
    ELSE IIRAfter(IIREvaluate(c, inputs[1][1], inputs[1][2], Zero)[1],
                  Tail(inputs))

\* all but the last element of a sequence that is not empty
Front(seq) == SubSeq(seq, 1, Len(seq) - 1)

\* C28: after a Reset, whatever calls were made before it, each variant is
\* in the state, and its last Evaluate has returned the value, of a new
\* instance given the same Reset and the same Evaluate calls
C28_ResetReseeds ==
    pid.seeded =>
        LET a == pid.args
            basic == BasicReset(NewBasic, a.Kp, a.Ki, a.Kd, a.dt)
            simple == SimpleReset(NewSimple, a.Kp, a.Ki, a.Kd, a.dt)
            iir == IIRReset(NewIIR, a.Kp, a.Ki, a.Kd, a.dt)
            c == pid.call
        IN  /\ pid.basic = BasicAfter(basic, pid.inputs)
            /\ pid.simple = SimpleAfter(simple, pid.inputs)
            /\ pid.iir = IIRAfter(iir, pid.inputs)
            /\ c.op = "Evaluate" =>
                  /\ c.basic = BasicEvaluate(BasicAfter(basic, Front(pid.inputs)),
                                             c.SP, c.PV, c.U)[2]
                  /\ c.simple = SimpleEvaluate(SimpleAfter(simple, Front(pid.inputs)),
                                               c.SP, c.PV, c.U)[2]
                  /\ c.iir = IIREvaluate(IIRAfter(iir, Front(pid.inputs)),
                                         c.SP, c.PV, c.U)[2]

\* C28 witness: controllers that had been evaluated were Reset with all
\* gains and a poll interval, then evaluated to the last call allowed, all
\* three returning numbers
C28_Witness ==
    /\ pid.seeded /\ pid.used /\ pid.call.op = "Evaluate"
    /\ Len(pid.inputs) = MaxEvals
    /\ ~FEq(pid.args.Kp, Zero) /\ ~FEq(pid.args.Ki, Zero)
    /\ ~FEq(pid.args.Kd, Zero) /\ pid.args.dt > 1
    /\ pid.call.basic.k = "fin" /\ pid.call.simple.k = "fin"
    /\ pid.call.iir.k = "fin"
    /\ pid.call.basic # Zero


\* the program p has the step list, the step count and the total duration
\* that the element pobj of a programs array gives a new program
Described(p, pobj) ==
    \E q \in LoadProgram(NewProgram, pobj) :
       /\ p.nSteps = q.nSteps
       /\ p.steps = q.steps
       /\ p.totalDuration = q.totalDuration

\* C29: UpdateRunningPrograms called with the array of the load before it,
\* or with the array BuildRunningPrograms wrote, leaves every program with
\* the steps, the step count and the total duration of the document
C29_LoadIsIdempotent ==
    [][(/\ conf'.op = "UpdateRunningPrograms"
        /\ conf.loads > 0
        /\ conf'.doc = conf.doc \/ conf'.doc = conf.built)
       => \A i \in 0 .. conf'.nPrograms - 1 :
             Described(conf'.Programs[i], conf'.doc[i + 1])]_vars


\* ------------------------------------------------------- naming a program
\* SetName on a program that steps are added to and that is run. The bytes
\* of _name that the constructor does not set hold 0 in an object with
\* static storage and anything otherwise (here 1)
Names == { CString(n) : n \in {0, 1, TPGM_NAME_LEN - 1, MaxNameLen} }

InitName ==
    /\ \E junk \in {0, 1} : prog = [NewProgram EXCEPT !.name = NewName(junk)]
    /\ clock = StartClock
    /\ ret = [op |-> "new", n |-> 0, arg |-> <<>>, b |-> FALSE, v |-> NAN]
    /\ hist = Armed
    /\ DevInit

CallSetName ==
    /\ \E name \in Names :
          /\ prog' \in SetName(prog, name)
          /\ ret' = Returned("SetName", name, FALSE, NAN)
    /\ hist' = IF prog'.timeElapsed = prog.timeElapsed THEN hist ELSE Other
    /\ UNCHANGED clock
    /\ UNCHANGED devVars

NextName ==
    \/ Tick
    \/ CallAddStep
    \/ CallBegin
    \/ CallCalculateSetPoint
    \/ CallSetName

SpecName == InitName /\ [][NextName]_vars

\* C30: SetName stores only to bytes of _name, leaves a 0 in _name, and
\* leaves every other member of the program as it was
C30_SetNameFrame ==
    [][ret'.op = "SetName" =>
          /\ SetNameWrites \subseteq NameIdx
          /\ \E i \in NameIdx : prog'.name[i] = 0
          /\ prog' = [prog EXCEPT !.name = prog'.name]]_vars

=============================================================================
